---- MODULE Spec2Model ----
(***************************************************************************)
(* Model of world/model.py: the World class (construction, add_route,      *)
(* enable_pol_filters), the orthographic renderer draw_top_view and the    *)
(* panoramic renderer draw_panoramic_view.                                  *)
(*                                                                         *)
(* The module is Python 2 (see the print statement of                       *)
(* data/EN/visualise-en.py), so `/` between two ints is floor division.     *)
(*                                                                         *)
(* External collaborators (numpy trigonometry in utils.vec2sph, the sky,    *)
(* the compound eye, PIL, the geometry containers) are not part of the     *)
(* file.  Their results are modelled as follows:                           *)
(*  - the projected column of every vertex and the representative distance *)
(*    of every polygon (lines 208-219) are arbitrary values of their range,*)
(*  - the projected row of a vertex is the opaque value Theta(k, v): the   *)
(*    code never inspects it, it only passes it on to the draw calls,      *)
(*  - the compound eye yields one sample per direction of its grid,        *)
(*  - a PIL image is its pixel map plus the ordered list of polygon calls. *)
(***************************************************************************)
EXTENDS Integers, Sequences, FiniteSets, TLC

WIDTH == 36
HEIGHT == 10
GROUND_COLOUR == <<229, 183, 90>>
GRASS_COLOUR == <<0, 255, 0>>
SKY_COLOUR == <<13, 135, 201>>

(* ------------------------------ bounds -------------------------------- *)
MaxRoutes == 2      \* add_route is called at most this many times
MaxClock == 1       \* the sky is regenerated at most this many times
MaxDist == 3        \* representative distances range over 1..MaxDist

Threads == {1, 2}   \* callers that may run draw_panoramic_view

(* ------------------------------ helpers ------------------------------- *)
SetMax(S) == CHOOSE m \in S : \A e \in S : e <= m
SetMin(S) == CHOOSE m \in S : \A e \in S : m <= e
Range(s) == {s[i] : i \in 1..Len(s)}
Abs(v) == IF v < 0 THEN -v ELSE v

\* an optional argument: <<>> is None, <<v>> is the value v
Default(opt, d) == IF opt = <<>> THEN d ELSE opt[1]

(* ------------------------------ inputs -------------------------------- *)
\* a polygon: vertex coordinates and its intrinsic colour
Poly(xs, ys, zs, c) == [x |-> xs, y |-> ys, z |-> zs, c |-> c]

PS_Empty == <<>>
PS_Zero == << Poly(<<0, 0>>, <<0, 0>>, <<0, 0>>, GROUND_COLOUR) >>
PS_Neg == << Poly(<<-5, 2>>, <<1, 0>>, <<0, 0>>, GRASS_COLOUR) >>
PS_Square == << Poly(<<0, 4, 4>>, <<0, 0, 4>>, <<0, 0, 0>>, GROUND_COLOUR) >>
PS_Three == << Poly(<<1, 2>>, <<1, 1>>, <<0, 3>>, GRASS_COLOUR),
               Poly(<<3, 4>>, <<2, 2>>, <<0, 1>>, GROUND_COLOUR),
               Poly(<<5, 6>>, <<0, 1>>, <<0, 2>>, SKY_COLOUR) >>

PolygonSets == {PS_Empty, PS_Zero, PS_Neg, PS_Square}

\* the dimensions a World is constructed with: <<width, length, height>>
WorldDims == {<<2, 2, 4>>}

\* a route: agent_no, route_no and its positions
MkRoute(a, n) == [agent_no |-> a, route_no |-> n, xyz |-> << <<0, 0, 0>>, <<a, n, 0>> >>]
Routes == {MkRoute(1, 1), MkRoute(2, 2), MkRoute(0, 1)}

\* the width/length/height arguments of a render call
Size(w, l, h) == [w |-> w, l |-> l, h |-> h]
NoSize == Size(<<>>, <<>>, <<>>)
CallSizes == {NoSize, Size(<<3>>, <<0>>, <<3>>), Size(<<2>>, <<>>, <<1>>)}
Headings == {0, 1}

(* ------------------------------- state -------------------------------- *)
VARIABLES
  status,            \* "none" | "constructed" | "raised"
  ctorErr,           \* the exception type raised by __init__, "" if none
  ctorArgs,          \* the arguments __init__ was called with
  polygons, routes, width, length, height,
  normalise_factor, uniform_sky, pol_filters,
  eye,               \* self.eye: 0 is None, t is the instance made by t
  eyeObj,            \* the CompoundEye instances, by the thread that made them
  skyDate,           \* number of times self.sky was regenerated
  added,             \* the arguments of the add_route calls, in call order
  topRet,            \* what the last draw_top_view call returned or raised
  threads,           \* the callers running draw_panoramic_view
  pc, loc            \* position and locals of each draw_panoramic_view call

world == <<polygons, routes, width, length, height, normalise_factor,
           uniform_sky, pol_filters>>
vars == <<status, ctorErr, ctorArgs, polygons, routes, width, length, height,
          normalise_factor, uniform_sky, pol_filters, eye, eyeObj, skyDate,
          added, topRet, threads, pc, loc>>

NoEye == [omm |-> <<>>, pol |-> FALSE, facing |-> 0, sky |-> -1]
NoTop == [kind |-> "none", err |-> "", w |-> 0, l |-> 0,
          background |-> <<>>, polys |-> <<>>, lines |-> <<>>]
NoLoc == [r |-> 0, upd |-> FALSE, width |-> 0, length |-> 0, height |-> 0,
          omm |-> <<>>, image |-> FALSE, pix |-> <<>>, made |-> 0, filtered |-> 0,
          faced |-> 0, bound |-> 0, read |-> 0, rhos |-> <<>>, phis |-> <<>>,
          ind |-> <<>>, draws |-> <<>>, err |-> ""]

InitCommon ==
  /\ status = "none" /\ ctorErr = "" /\ ctorArgs = <<>>
  /\ polygons = <<>> /\ routes = <<>> /\ added = <<>>
  /\ width = 0 /\ length = 0 /\ height = 0
  /\ normalise_factor = 0 /\ uniform_sky = FALSE /\ pol_filters = FALSE
  /\ eye = 0 /\ eyeObj = [t \in Threads |-> NoEye]
  /\ skyDate = 0 /\ topRet = NoTop
  /\ pc = [t \in Threads |-> "idle"]
  /\ loc = [t \in Threads |-> NoLoc]

Init == InitCommon /\ threads = {1}

(* ---------------------------- World.__init__ --------------------------- *)
\* polygons.x.max(), polygons.y.max(), polygons.z.max()
AxisMax(ps, axis) ==
  SetMax(UNION {Range(IF axis = "x" THEN ps[k].x
                      ELSE IF axis = "y" THEN ps[k].y ELSE ps[k].z)
                : k \in 1..Len(ps)})
\* xmax = np.array([x.max(), y.max(), z.max()]).max()
XMax(ps) == SetMax({AxisMax(ps, "x"), AxisMax(ps, "y"), AxisMax(ps, "z")})

Construct(ps, dims, us, pf) ==
  /\ status = "none"
  /\ ctorArgs' = <<ps, dims, us, pf>>
  /\ IF ps = <<>>
     THEN \* max() of a zero-size array raises
          /\ status' = "raised" /\ ctorErr' = "ValueError"
          /\ UNCHANGED <<world, eye, skyDate>>
     ELSE /\ status' = "constructed" /\ ctorErr' = ""
          /\ skyDate' = 0
          /\ eye' = 0
          /\ pol_filters' = pf
          /\ polygons' = ps
          /\ routes' = <<>>
          /\ width' = dims[1] /\ length' = dims[2] /\ height' = dims[3]
          /\ normalise_factor' = XMax(ps)
          /\ uniform_sky' = us
  /\ UNCHANGED <<eyeObj, added, topRet, threads, pc, loc>>

\* the caller holds no unreturned result and runs no render
Quiet == topRet.kind = "none" /\ \A t \in Threads : pc[t] = "idle"

enable_pol_filters(value) ==
  /\ status = "constructed" /\ Quiet
  /\ pol_filters' = value
  /\ UNCHANGED <<status, ctorErr, ctorArgs, polygons, routes, width, length,
                 height, normalise_factor, uniform_sky, eye, eyeObj, skyDate,
                 added, topRet, threads, pc, loc>>

add_route(route) ==
  /\ status = "constructed" /\ Quiet
  /\ Len(routes) < MaxRoutes
  /\ routes' = Append(routes, route)
  /\ added' = Append(added, route)
  /\ UNCHANGED <<status, ctorErr, ctorArgs, polygons, width, length, height,
                 normalise_factor, uniform_sky, pol_filters, eye, eyeObj,
                 skyDate, topRet, threads, pc, loc>>

(* --------------------------- draw_top_view ----------------------------- *)
\* np.linspace(0, 1, n)[idx] as the fraction <<numerator, denominator>>;
\* <<>> when the index is out of range.  A negative idx counts from the end.
LinspaceAt(n, idx) ==
  LET i == IF idx < 0 THEN n + idx ELSE idx IN
  IF i < 0 \/ i >= n THEN <<>>
  ELSE IF n = 1 THEN <<0, 1>> ELSE <<i, n - 1>>

\* the polygon loop: original order, intrinsic colour
TopPolys == [k \in 1..Len(polygons) |-> [idx |-> k, fill |-> polygons[k].c]]

\* h and s of every route
RouteHS(rs) ==
  LET nants == SetMax({rs[j].agent_no : j \in 1..Len(rs)})
      nroutes == SetMax({rs[j].route_no : j \in 1..Len(rs)})
  IN [j \in 1..Len(rs) |->
        [idx |-> j, h |-> LinspaceAt(nants, rs[j].agent_no - 1),
         s |-> LinspaceAt(nroutes, rs[j].route_no - 1)]]

\* what draw_top_view returns or raises
TopResult(size) ==
  LET w == Default(size.w, width)
      l == Default(size.l, length)
      img == [kind |-> "image", err |-> "", w |-> w, l |-> l,
              background |-> GROUND_COLOUR, polys |-> TopPolys,
              lines |-> <<>>]
      fail(e) == [NoTop EXCEPT !.kind = "raised", !.err = e]
  IN IF routes = <<>> THEN fail("ValueError")
     ELSE LET hs == RouteHS(routes) IN
          IF \E j \in 1..Len(hs) : hs[j].h = <<>> \/ hs[j].s = <<>>
          THEN fail("IndexError")
          ELSE [img EXCEPT !.lines = hs]

\* route.scale(...) * [width, length, height] applied to the stored route
ScaledInPlace(rt, w, l, h) ==
  [rt EXCEPT !.xyz = [i \in 1..Len(rt.xyz) |->
                        <<rt.xyz[i][1] * w, rt.xyz[i][2] * l, rt.xyz[i][3] * h>>]]
draw_top_view_InPlace(size) ==
  /\ status = "constructed" /\ Quiet
  /\ topRet' = TopResult(size)
  /\ routes' = [j \in 1..Len(routes) |->
                  ScaledInPlace(routes[j], Default(size.w, width),
                                Default(size.l, length), Default(size.h, height))]
  /\ UNCHANGED <<status, ctorErr, ctorArgs, polygons, width, length, height,
                 normalise_factor, uniform_sky, pol_filters, eye, eyeObj,
                 skyDate, added, threads, pc, loc>>

draw_top_view(size) ==
  /\ status = "constructed" /\ Quiet
  /\ topRet' = TopResult(size)
  /\ UNCHANGED <<status, ctorErr, ctorArgs, world, eye, eyeObj, skyDate,
                 added, threads, pc, loc>>

\* the caller takes the image (or the exception) of draw_top_view
T_Return ==
  /\ topRet.kind # "none"
  /\ topRet' = NoTop
  /\ UNCHANGED <<status, ctorErr, ctorArgs, world, eye, eyeObj, skyDate,
                 added, threads, pc, loc>>

(* ------------------------ draw_panoramic_view -------------------------- *)
\* calls that will still regenerate the sky
PendingUpdates ==
  Cardinality({u \in threads : pc[u] \in {"sky", "filters", "update"} /\ loc[u].upd})

\* thetas, phis = np.meshgrid(phis, thetas); ommatidia = [flatten, flatten].T
\* w azimuths crossed with h2 elevations, row-major: direction i (from 0) is
\* <<elevation index, azimuth index>> = <<i % h2, i // h2>>
Ommatidia(w, h2) == [j \in 1..(w * h2) |-> <<(j - 1) % h2, (j - 1) \div h2>>]

\* Image.new("RGB", (w, h), GROUND_COLOUR)
NewImage(w, h) == [p \in (0..(w - 1)) \X (0..(h - 1)) |-> <<"ground", -1>>]

\* lines 162-184: defaults, sensor grid, new image
P_Call(t, size, r, upd) ==
  /\ status = "constructed"
  /\ t \in threads /\ pc[t] = "idle" /\ topRet.kind = "none"
  /\ upd => skyDate + PendingUpdates < MaxClock
  /\ LET w == Default(size.w, width)
         l == Default(size.l, length)
         h == Default(size.h, height)
     IN loc' = [loc EXCEPT ![t] =
                  [NoLoc EXCEPT !.r = r, !.upd = upd, !.width = w,
                                !.length = l, !.height = h,
                                !.omm = Ommatidia(w, h \div 2),
                                !.image = TRUE, !.pix = NewImage(w, h)]]
  /\ pc' = [pc EXCEPT ![t] = "sky"]
  /\ UNCHANGED <<status, ctorErr, ctorArgs, world, eye, eyeObj, skyDate,
                 added, topRet, threads>>

\* draw.rectangle((0, 0, w, h / 2), fill=SKY_COLOUR): both corners inclusive
SkyRect(pix, w, h2) ==
  [p \in DOMAIN pix |-> IF p[1] <= w /\ p[2] <= h2 THEN <<"sky", -1>> ELSE pix[p]]

\* lines 186-190: uniform sky, or self.eye = CompoundEye(ommatidia)
P_Sky(t) ==
  /\ t \in threads /\ pc[t] = "sky"
  /\ IF uniform_sky
     THEN /\ loc' = [loc EXCEPT ![t].pix =
                       SkyRect(loc[t].pix, loc[t].width, loc[t].height \div 2)]
          /\ pc' = [pc EXCEPT ![t] = "project"]
          /\ UNCHANGED <<eye, eyeObj>>
     ELSE /\ eye' = t
          /\ eyeObj' = [eyeObj EXCEPT ![t] = [NoEye EXCEPT !.omm = loc[t].omm]]
          /\ loc' = [loc EXCEPT ![t].made = t]
          /\ pc' = [pc EXCEPT ![t] = "filters"]
  /\ UNCHANGED <<status, ctorErr, ctorArgs, world, skyDate, added, topRet,
                 threads>>

\* line 191: self.eye.activate_pol_filters(self.__pol_filters)
P_Filters(t) ==
  /\ t \in threads /\ pc[t] = "filters"
  /\ eyeObj' = [eyeObj EXCEPT ![eye].pol = pol_filters]
  /\ loc' = [loc EXCEPT ![t].filtered = eye]
  /\ pc' = [pc EXCEPT ![t] = "update"]
  /\ UNCHANGED <<status, ctorErr, ctorArgs, world, eye, skyDate, added,
                 topRet, threads>>

\* lines 192-194: if update_sky: self.sky.obs.date = now; self.sky.generate()
P_Update(t) ==
  /\ t \in threads /\ pc[t] = "update"
  /\ skyDate' = IF loc[t].upd THEN skyDate + 1 ELSE skyDate
  /\ pc' = [pc EXCEPT ![t] = "facing"]
  /\ UNCHANGED <<status, ctorErr, ctorArgs, world, eye, eyeObj, added,
                 topRet, threads, loc>>

\* line 195: self.eye.facing_direction = -r
P_Facing(t) ==
  /\ t \in threads /\ pc[t] = "facing"
  /\ eyeObj' = [eyeObj EXCEPT ![eye].facing = -loc[t].r]
  /\ loc' = [loc EXCEPT ![t].faced = eye]
  /\ pc' = [pc EXCEPT ![t] = "bind"]
  /\ UNCHANGED <<status, ctorErr, ctorArgs, world, eye, skyDate, added,
                 topRet, threads>>

\* line 196: self.eye.set_sky(self.sky)
P_Bind(t) ==
  /\ t \in threads /\ pc[t] = "bind"
  /\ eyeObj' = [eyeObj EXCEPT ![eye].sky = skyDate]
  /\ loc' = [loc EXCEPT ![t].bound = eye]
  /\ pc' = [pc EXCEPT ![t] = "read"]
  /\ UNCHANGED <<status, ctorErr, ctorArgs, world, eye, skyDate, added,
                 topRet, threads>>

PixelOf_Swapped(i, h2) == <<i % h2, i \div h2>>
\* the pixel the sample with grid index i (from 0) is written to
PixelOf(i, h2) == <<i \div h2, i % h2>>

\* lines 198-200: for i, c in enumerate(self.eye.L): pix[i // h2, i % h2] = c
\* self.eye.L holds one sample per direction of the eye's grid
WriteSamples(pix, nsamples, h2) ==
  [p \in DOMAIN pix |->
     IF \E i \in 0..(nsamples - 1) : PixelOf(i, h2) = p
     THEN <<"L", SetMax({i \in 0..(nsamples - 1) : PixelOf(i, h2) = p})>>
     ELSE pix[p]]

P_Read(t) ==
  /\ t \in threads /\ pc[t] = "read"
  /\ LET nsamples == Len(eyeObj[eye].omm)
         h2 == loc[t].height \div 2
     IN IF nsamples > 0 /\ h2 = 0
        THEN /\ pc' = [pc EXCEPT ![t] = "raised"]
             /\ loc' = [loc EXCEPT ![t].read = eye,
                                   ![t].err = "ZeroDivisionError"]
        ELSE IF \E i \in 0..(nsamples - 1) : PixelOf(i, h2) \notin DOMAIN loc[t].pix
        THEN /\ pc' = [pc EXCEPT ![t] = "raised"]
             /\ loc' = [loc EXCEPT ![t].read = eye, ![t].err = "IndexError"]
        ELSE /\ pc' = [pc EXCEPT ![t] = "project"]
             /\ loc' = [loc EXCEPT ![t].read = eye,
                                   ![t].pix = WriteSamples(loc[t].pix, nsamples, h2)]
  /\ UNCHANGED <<status, ctorErr, ctorArgs, world, eye, eyeObj, skyDate,
                 added, topRet, threads>>

\* the projected row of vertex v of polygon k (line 217); opaque
Theta(k, v) == <<"theta", k, v>>

\* np.argsort(rhos): a permutation that sorts rhos ascending
IsArgsort(p, rhos) ==
  /\ \A i, j \in DOMAIN p : i # j => p[i] # p[j]
  /\ \A i \in 1..(Len(rhos) - 1) : rhos[p[i]] <= rhos[p[i + 1]]
Argsorts(rhos) ==
  {p \in [1..Len(rhos) -> 1..Len(rhos)] : IsArgsort(p, rhos)}
Reverse_NoFlip(s) == s
\* [::-1]
Reverse(s) == [i \in 1..Len(s) |-> s[Len(s) + 1 - i]]

\* p = tuple((b, a) for a, b in zip(theta, phi)); draw.polygon(p, fill=c)
DrawCall(k, cols, c) ==
  [poly |-> k, fill |-> c, xy |-> [v \in 1..Len(cols) |-> <<cols[v], Theta(k, v)>>]]

\* width/2 with an int width (Python 2)
Half(w) == w \div 2

PolygonDraws_Strict(k, phi, w, c) ==
  IF SetMax(Range(phi)) - SetMin(Range(phi)) < Half(w)
  THEN << DrawCall(k, phi, c) >>
  ELSE LET phi0 == [v \in 1..Len(phi) |-> IF phi[v] < Half(w) THEN phi[v] + w ELSE phi[v]]
           phi1 == [v \in 1..Len(phi) |-> IF phi[v] > Half(w) THEN phi[v] - w ELSE phi[v]]
       IN << DrawCall(k, phi0, c), DrawCall(k, phi1, c) >>

\* lines 222-232: one call, or two shifted copies across the seam
PolygonDraws(k, phi, w, c) ==
  IF SetMax(Range(phi)) - SetMin(Range(phi)) < Half(w)
  THEN << DrawCall(k, phi, c) >>
  ELSE LET phi0 == [v \in 1..Len(phi) |-> IF phi[v] < Half(w) THEN phi[v] + w ELSE phi[v]]
           phi1 == [v \in 1..Len(phi) |-> IF phi[v] >= Half(w) THEN phi[v] - w ELSE phi[v]]
       IN << DrawCall(k, phi0, c), DrawCall(k, phi1, c) >>

\* line 221: the loop over thetas[ind], phis[ind], c_int32[ind]
RECURSIVE DrawLoop(_, _, _, _)
DrawLoop(ind, phis, w, ps) ==
  IF ind = <<>> THEN <<>>
  ELSE PolygonDraws(Head(ind), phis[Head(ind)], w, ps[Head(ind)].c)
         \o DrawLoop(Tail(ind), phis, w, ps)

\* lines 202-232: projection, depth sort, rasterisation
P_Project(t) ==
  /\ t \in threads /\ pc[t] = "project"
  /\ \E rhos \in [1..Len(polygons) -> 1..MaxDist] :
     \E phis \in [1..Len(polygons) ->
                    [1..Len(polygons[1].x) -> 0..(loc[t].width - 1)]] :
     \E asc \in Argsorts(rhos) :
       \* return image, draw: the other locals die with the call
       loc' = [loc EXCEPT ![t].rhos = rhos, ![t].phis = phis,
                           ![t].ind = Reverse(asc),
                           ![t].draws = DrawLoop(Reverse(asc), phis,
                                                 loc[t].width, polygons),
                           ![t].r = 0, ![t].upd = FALSE, ![t].omm = <<>>]
  /\ pc' = [pc EXCEPT ![t] = "done"]
  /\ UNCHANGED <<status, ctorErr, ctorArgs, world, eye, eyeObj, skyDate,
                 added, topRet, threads>>

\* the caller takes the image (or the exception) of draw_panoramic_view
P_Return(t) ==
  /\ t \in threads /\ pc[t] \in {"done", "raised"}
  /\ pc' = [pc EXCEPT ![t] = "idle"]
  /\ loc' = [loc EXCEPT ![t] = NoLoc]
  /\ UNCHANGED <<status, ctorErr, ctorArgs, world, eye, eyeObj, skyDate,
                 added, topRet, threads>>

(* --------------------------- specifications ---------------------------- *)
RenderWith(sizes, upds) ==
  \E t \in Threads :
    \/ \E size \in sizes, r \in Headings, upd \in upds : P_Call(t, size, r, upd)
    \/ P_Sky(t)
    \/ P_Filters(t)
    \/ P_Update(t)
    \/ P_Facing(t)
    \/ P_Bind(t)
    \/ P_Read(t)
    \/ P_Project(t)
    \/ P_Return(t)

Next ==
  \/ \E ps \in PolygonSets, dims \in WorldDims, us \in BOOLEAN, pf \in BOOLEAN :
       Construct(ps, dims, us, pf)
  \/ \E value \in BOOLEAN : enable_pol_filters(value)
  \/ \E route \in Routes : add_route(route)
  \/ \E size \in CallSizes : draw_top_view(size)
  \/ T_Return
  \/ RenderWith(CallSizes, BOOLEAN)

Spec == Init /\ [][Next]_vars

\* the state __init__ leaves behind for a non-empty polygon set
Constructed(ps, dims, us, pf) ==
  /\ status = "constructed" /\ ctorErr = "" /\ ctorArgs = <<ps, dims, us, pf>>
  /\ polygons = ps /\ routes = <<>> /\ added = <<>>
  /\ width = dims[1] /\ length = dims[2] /\ height = dims[3]
  /\ normalise_factor = XMax(ps) /\ uniform_sky = us /\ pol_filters = pf
  /\ eye = 0 /\ eyeObj = [t \in Threads |-> NoEye]
  /\ skyDate = 0 /\ topRet = NoTop
  /\ pc = [t \in Threads |-> "idle"]
  /\ loc = [t \in Threads |-> NoLoc]

\* panoramic renders, one after the other, of a world of three polygons
PanoSizes == {NoSize, Size(<<2>>, <<>>, <<2>>)}
InitPano ==
  /\ \E dims \in WorldDims, us \in BOOLEAN : Constructed(PS_Three, dims, us, TRUE)
  /\ threads = {1}
NextPano == RenderWith(PanoSizes, BOOLEAN)
SpecPano == InitPano /\ [][NextPano]_vars

\* panoramic renders, one after the other, of a 4 x 4 x 4 world of one polygon
TriDims == {<<4, 4, 4>>}
InitTri ==
  /\ \E dims \in TriDims, us \in BOOLEAN : Constructed(PS_Square, dims, us, TRUE)
  /\ threads = {1}
NextTri == RenderWith(CallSizes, BOOLEAN)
SpecTri == InitTri /\ [][NextTri]_vars

\* top-down renders of a 4 x 4 x 4 world of one polygon
NextTop ==
  \/ \E value \in BOOLEAN : enable_pol_filters(value)
  \/ \E route \in Routes : add_route(route)
  \/ \E size \in CallSizes : draw_top_view(size)
  \/ T_Return
SpecTop == InitTri /\ [][NextTop]_vars

\* two callers rendering the same world at the same time
ParSizes == {NoSize, Size(<<3>>, <<>>, <<2>>)}
InitPar ==
  /\ \E dims \in WorldDims : Constructed(PS_Neg, dims, FALSE, TRUE)
  /\ threads = {1, 2}
NextPar == RenderWith(ParSizes, {FALSE})
SpecPar == InitPar /\ [][NextPar]_vars

(* ------------------------------ properties ----------------------------- *)
Cols(call) == [v \in 1..Len(call.xy) |-> call.xy[v][1]]
Rows(call) == [v \in 1..Len(call.xy) |-> call.xy[v][2]]
CallsOf(d, k) == SelectSeq(d, LAMBDA call : call.poly = k)
Finished(t) == t \in threads /\ pc[t] = "done"

\* C1: the polygon draw calls of a panoramic render come in descending order
\* of the polygons' representative distances: every call of a farther polygon
\* precedes every call of a nearer one, and every polygon is drawn.
C1_DepthOrder ==
  \A t \in Threads : Finished(t) =>
    LET d == loc[t].draws
        rho == loc[t].rhos
    IN /\ \A i, j \in 1..Len(d) : rho[d[i].poly] > rho[d[j].poly] => i < j
       /\ \A k \in 1..Len(polygons) : \E i \in 1..Len(d) : d[i].poly = k
\* distances {3, 1, 2} drawn in the order {3, 2, 1}
C1_Witness ==
  /\ Finished(1) /\ loc[1].rhos = <<3, 1, 2>>
  /\ [i \in 1..Len(loc[1].draws) |-> loc[1].draws[i].poly] = <<1, 3, 2>>

\* C2: a polygon whose column spread is below width/2 gives exactly one draw
\* call with its columns unshifted; any other polygon gives exactly two calls
\* of the same colour and rows, the first with the columns below width/2 moved
\* up by width, the second with the columns at or above width/2 moved down by
\* width, so that each copy's columns modulo width are the original columns.
C2_SeamSplit ==
  \A t \in Threads : Finished(t) =>
    \A k \in 1..Len(polygons) :
      LET w == loc[t].width
          phi == loc[t].phis[k]
          calls == CallsOf(loc[t].draws, k)
          V == 1..Len(phi)
      IN IF SetMax(Range(phi)) - SetMin(Range(phi)) < Half(w)
         THEN /\ Len(calls) = 1
              /\ Cols(calls[1]) = phi
              /\ calls[1].fill = polygons[k].c
         ELSE /\ Len(calls) = 2
              /\ calls[1].fill = calls[2].fill /\ calls[1].fill = polygons[k].c
              /\ Rows(calls[1]) = Rows(calls[2])
              /\ \A v \in V :
                   /\ Cols(calls[1])[v] = IF phi[v] < Half(w) THEN phi[v] + w ELSE phi[v]
                   /\ Cols(calls[2])[v] = IF phi[v] >= Half(w) THEN phi[v] - w ELSE phi[v]
                   /\ Cols(calls[1])[v] % w = phi[v]
                   /\ Cols(calls[2])[v] % w = phi[v]
\* a polygon at the columns {width-2, width-1, 1} was split in two
C2_Witness ==
  /\ Finished(1) /\ loc[1].width = 4 /\ loc[1].phis[1] = <<2, 3, 1>>
  /\ Len(loc[1].draws) = 2
  /\ Cols(loc[1].draws[1]) = <<2, 3, 5>> /\ Cols(loc[1].draws[2]) = <<-2, -1, 1>>

MaxAbs(ps) ==
  SetMax({Abs(v) : v \in UNION {Range(ps[k].x) \cup Range(ps[k].y) \cup Range(ps[k].z)
                                : k \in 1..Len(ps)}})
AllZero(ps) == \A k \in 1..Len(ps) : Range(ps[k].x) \cup Range(ps[k].y) \cup Range(ps[k].z) = {0}

\* C3: for a polygon set with a non-zero coordinate, the normalization scale
\* of a constructed World is the maximum absolute coordinate over all vertices.
C3_ScaleIsMaxAbs ==
  (status = "constructed" /\ ~AllZero(polygons)) => normalise_factor = MaxAbs(polygons)

\* C4: a top-down render of a world without routes returns an image that holds
\* the ground background and the polygons only.
C4_NoRoutesRenders ==
  (topRet.kind # "none" /\ routes = <<>>) =>
    /\ topRet.kind = "image"
    /\ topRet.background = GROUND_COLOUR
    /\ topRet.lines = <<>>
    /\ Len(topRet.polys) = Len(polygons)

\* C5: when the routes carry one distinct agent ID the hue of every route is
\* 0, when they carry one distinct route ID the saturation of every route is
\* 0, whatever the ID is, and no index error occurs.
C5_SingleIdRankZero ==
  (topRet.kind # "none" /\ routes # <<>>) =>
    LET agents == {routes[j].agent_no : j \in 1..Len(routes)}
        nos == {routes[j].route_no : j \in 1..Len(routes)}
    IN /\ topRet.err \notin {"IndexError", "ZeroDivisionError"}
       /\ Cardinality(agents) = 1 =>
            /\ topRet.kind = "image"
            /\ \A j \in 1..Len(topRet.lines) : topRet.lines[j].h[1] = 0
       /\ Cardinality(nos) = 1 =>
            /\ topRet.kind = "image"
            /\ \A j \in 1..Len(topRet.lines) : topRet.lines[j].s[1] = 0

InSkyPhase(t) == t \in threads /\ pc[t] \in {"sky", "filters", "update", "facing", "bind", "read"}
SkySampled(t) == t \in threads /\ pc[t] \in {"project", "done"} /\ ~uniform_sky
UpperHalf(w, h) == (0..(w - 1)) \X (0..((h \div 2) - 1))

\* C6: the sensor grid of a width x height render holds width * (height/2)
\* directions (180 for 36 x 10), sample i goes to pixel (i div (height/2),
\* i mod (height/2)), every upper-half pixel receives exactly one sample and
\* no lower-half pixel receives any.
C6_GridPixels ==
  /\ Len(Ommatidia(WIDTH, HEIGHT \div 2)) = 180
  /\ \A t \in Threads :
       /\ InSkyPhase(t) => Len(loc[t].omm) = loc[t].width * (loc[t].height \div 2)
       /\ SkySampled(t) =>
            LET w == loc[t].width
                h == loc[t].height
                pix == loc[t].pix
                up == UpperHalf(w, h)
            IN /\ \A p \in up :
                    /\ pix[p][1] = "L"
                    /\ pix[p][2] \in 0..(w * (h \div 2) - 1)
                    /\ pix[p][2] \div (h \div 2) = p[1]
                    /\ pix[p][2] % (h \div 2) = p[2]
               /\ Cardinality({pix[p][2] : p \in up}) = w * (h \div 2)
               /\ \A p \in DOMAIN pix \ up : pix[p] = <<"ground", -1>>
\* a 4 x 4 render wrote its 8 samples
C6_Witness ==
  /\ SkySampled(1) /\ loc[1].width = 4 /\ loc[1].height = 4
  /\ loc[1].pix[<<3, 1>>] = <<"L", 7>> /\ loc[1].pix[<<1, 0>>] = <<"L", 2>>

\* C7: constructing a World from an empty or an all-zero polygon set fails
\* (the claim names the error ConfigurationError; any exception is accepted
\* here), so no World has a zero normalization scale.
C7_ZeroScaleRejected ==
  status # "none" =>
    /\ (ctorArgs[1] = <<>> \/ AllZero(ctorArgs[1])) => status = "raised"
    /\ status = "constructed" => normalise_factor # 0

\* C8: a panoramic render asked for an odd width or a non-positive dimension
\* fails (the claim names the error ConfigurationError; any exception is
\* accepted here) before an image or an eye is created.
C8_BadSizeRejected ==
  \A t \in Threads :
    (/\ t \in threads /\ pc[t] # "idle"
     /\ \/ loc[t].width % 2 # 0
        \/ loc[t].width <= 0 \/ loc[t].length <= 0 \/ loc[t].height <= 0)
    => /\ pc[t] = "raised"
       /\ ~loc[t].image /\ loc[t].made = 0

\* C9: add_route and the two renders leave the polygons, the dimensions, the
\* normalization scale and the two flags as they were set (the filter flag
\* changes by enable_pol_filters only), and the routes are the routes passed
\* to add_route in call order.
C9_Frame ==
  /\ [](status = "constructed" =>
          /\ polygons = ctorArgs[1]
          /\ <<width, length, height>> = ctorArgs[2]
          /\ uniform_sky = ctorArgs[3]
          /\ routes = added)
  /\ [][status = "constructed" =>
          /\ normalise_factor' = normalise_factor
          /\ pol_filters' # pol_filters => \E v \in BOOLEAN : enable_pol_filters(v)]_vars
\* two routes were added, a panoramic render refreshed the sky and left its
\* eye, and a top-down render returned its image
C9_Witness ==
  /\ topRet.kind = "image" /\ eye = 1 /\ skyDate = 1
  /\ Len(routes) = 2 /\ routes[1] # routes[2]

\* C10: under every interleaving of two panoramic renders, the eye a render
\* sets the facing direction of, binds to the sky and reads the samples from
\* is the instance this render constructed.
C10_OwnEye ==
  \A t \in Threads : t \in threads =>
    /\ loc[t].faced # 0 => loc[t].faced = loc[t].made
    /\ loc[t].bound # 0 => loc[t].bound = loc[t].made
    /\ loc[t].read # 0 => loc[t].read = loc[t].made

====
